---- MODULE Spec2Model ----
(***************************************************************************)
(* Model of src/app.py: a Streamlit script that extracts text from         *)
(* uploaded resumes, fits a cached TF-IDF vectorizer on [job description]  *)
(* + extracted texts, scores every resume by cosine similarity, sorts the  *)
(* results and shows them as cards and as a CSV export.                    *)
(*                                                                         *)
(* A string is modelled as a sequence of tokens: words, and the separator  *)
(* " ".  A float score is modelled in fixed point, in millionths.          *)
(***************************************************************************)
EXTENDS Integers, Sequences, FiniteSets, TLC

\* Largest number of files held by the uploader at once.
MaxResumes == 3

----------------------------------------------------------------------------
\* The texts and files the user can supply.

\* Words of sklearn's 'english' stop list that occur in the inputs.
StopWords == {"the"}

Space == " "

\* What the user can paste into the job-description text area ("" included).
JobDescriptions ==
    { <<>>,
      <<Space>>,
      <<"python", Space, "sql">>,
      <<"the">> }

\* What the user can upload.  parts are the page texts of a PDF (<<>> for a
\* page without a text layer) or the paragraph texts of a DOCX; corrupt files
\* make the parser raise.  ext is what file.name ends with; the uploader
\* accepts "x.PDF", which ends with neither ".pdf" nor ".docx".
Uploadable ==
    { [name |-> "a.pdf",  ext |-> ".pdf",  corrupt |-> FALSE,
       parts |-> << <<"python">>, <<"sql", Space, "the">> >>],
      [name |-> "b.docx", ext |-> ".docx", corrupt |-> FALSE,
       parts |-> << <<"python", Space, "sql", Space, "the">> >>],
      [name |-> "c.pdf",  ext |-> ".pdf",  corrupt |-> FALSE,
       parts |-> << <<"chef", Space, "python">> >>],
      [name |-> "d.pdf",  ext |-> ".pdf",  corrupt |-> TRUE,
       parts |-> << >>],
      [name |-> "e.pdf",  ext |-> ".pdf",  corrupt |-> FALSE,
       parts |-> << <<>>, <<>> >>],
      [name |-> "f.PDF",  ext |-> ".PDF",  corrupt |-> FALSE,
       parts |-> << <<"python">> >>],
      [name |-> "g.docx", ext |-> ".docx", corrupt |-> FALSE,
       parts |-> << <<"the">> >>] }

----------------------------------------------------------------------------
\* Strings

\* " ".join(parts)
RECURSIVE Join(_)
Join(parts) ==
    IF parts = <<>> THEN <<>>
    ELSE IF Len(parts) = 1 THEN Head(parts)
    ELSE Head(parts) \o <<Space>> \o Join(Tail(parts))

\* str.strip()
RECURSIVE StripLeft(_)
StripLeft(s) ==
    IF s # <<>> /\ Head(s) = Space THEN StripLeft(Tail(s)) ELSE s

RECURSIVE StripRight(_)
StripRight(s) ==
    IF s # <<>> /\ s[Len(s)] = Space
    THEN StripRight(SubSeq(s, 1, Len(s) - 1)) ELSE s

Strip(s) == StripRight(StripLeft(s))

----------------------------------------------------------------------------
\* extract_text(file): the text, and the st.error it shows (at most one).

\* The mutant drops the st.error of the except branch.
extract_text_silent(file) ==
    [text |-> IF ~file.corrupt /\ file.ext \in {".pdf", ".docx"}
              THEN Strip(Join(file.parts)) ELSE <<>>,
     error |-> <<>>]

extract_text(file) ==
    IF file.ext = ".pdf" \/ file.ext = ".docx"
    THEN IF file.corrupt
         THEN [text |-> <<>>,
               error |-> << [msg |-> "Error processing", file |-> file.name] >>]
         ELSE [text |-> Strip(Join(file.parts)), error |-> <<>>]
    ELSE [text |-> <<>>, error |-> <<>>]

----------------------------------------------------------------------------
\* TfidfVectorizer(stop_words='english') and cosine_similarity, in fixed point.

\* 10 * ln(k), rounded, for k = 1, 2, ...
Ln10 == <<0, 7, 11, 14, 16, 18, 19, 21, 22>>

\* The terms the analyzer keeps of a text.
Terms(text) == {text[k] : k \in DOMAIN text} \ ({Space} \cup StopWords)

Count(text, t) == Cardinality({k \in DOMAIN text : text[k] = t})

RECURSIVE SumOver(_, _)
SumOver(S, f) ==
    IF S = {} THEN 0
    ELSE LET x == CHOOSE y \in S : TRUE
         IN  f[x] + SumOver(S \ {x}, f)

\* The vectorizer object before its first fit.
NewVectorizer == [fitted |-> FALSE, vocabulary_ |-> {}, idf_ |-> <<>>]

\* fit: the vocabulary and the smoothed idf, ln((1+n)/(1+df)) + 1, of corpus.
Fit(corpus) ==
    LET vocab == UNION {Terms(corpus[k]) : k \in DOMAIN corpus}
        n     == Len(corpus)
        df(t) == Cardinality({k \in DOMAIN corpus : t \in Terms(corpus[k])})
    IN  [fitted |-> TRUE,
         vocabulary_ |-> vocab,
         idf_ |-> [t \in vocab |-> Ln10[1 + n] - Ln10[1 + df(t)] + 10]]

\* transform: the tf * idf weights of one text over the fitted vocabulary.
Transform(vec, text) ==
    [t \in vec.vocabulary_ |-> Count(text, t) * vec.idf_[t]]

\* The mutant keeps the state of an earlier fit (transform in place of
\* fit_transform once the cached object is fitted).
fit_transform_cached(vec, corpus) ==
    LET fitted == IF vec.fitted THEN vec ELSE Fit(corpus)
    IN  IF fitted.vocabulary_ = {}
        THEN [raised |-> TRUE, vectorizer |-> vec, matrix |-> <<>>]
        ELSE [raised |-> FALSE, vectorizer |-> fitted,
              matrix |-> [k \in DOMAIN corpus |-> Transform(fitted, corpus[k])]]

\* vectorizer.fit_transform(corpus): raises ValueError on an empty vocabulary,
\* else refits the object and returns one row per text.
fit_transform(vec, corpus) ==
    LET fitted == Fit(corpus)
    IN  IF fitted.vocabulary_ = {}
        THEN [raised |-> TRUE, vectorizer |-> vec, matrix |-> <<>>]
        ELSE [raised |-> FALSE, vectorizer |-> fitted,
              matrix |-> [k \in DOMAIN corpus |-> Transform(fitted, corpus[k])]]

Dot(u, v) == SumOver(DOMAIN u, [t \in DOMAIN u |-> u[t] * v[t]])

RECURSIVE ISqrtIn(_, _, _)
ISqrtIn(x, lo, hi) ==
    IF lo >= hi THEN lo
    ELSE LET mid == (lo + hi + 1) \div 2
         IN  IF mid * mid <= x THEN ISqrtIn(x, mid, hi)
             ELSE ISqrtIn(x, lo, mid - 1)

ISqrt(x) == ISqrtIn(x, 0, IF x < 46340 THEN x ELSE 46340)

\* One score in millionths: floor(10^6 * num / den), by long division.
Millionths(num, den) ==
    LET q1 == (num * 1000) \div den
        r1 == (num * 1000) % den
    IN  q1 * 1000 + (r1 * 1000) \div den

\* cosine_similarity(matrix[0:1], matrix[1:]).flatten(); a zero row scores 0.
cosine_similarity(matrix) ==
    LET q == matrix[1]
    IN  [k \in 1 .. Len(matrix) - 1 |->
            LET d == matrix[k + 1]
                norm == ISqrt(Dot(q, q) * Dot(d, d))
            IN  IF norm = 0 THEN 0 ELSE Millionths(Dot(q, d), norm)]

----------------------------------------------------------------------------
\* f"{score * 100:.2f}%": the characters of the percentage, two decimals.

DigitChars == <<"0", "1", "2", "3", "4", "5", "6", "7", "8", "9">>

RECURSIVE Digits(_)
Digits(n) ==
    IF n < 10 THEN <<DigitChars[n + 1]>>
    ELSE Digits(n \div 10) \o <<DigitChars[(n % 10) + 1]>>

FormatPct(score) ==
    LET h == (score + 50) \div 100      \* hundredths of a percent, rounded
    IN  Digits(h \div 100) \o <<".">>
        \o <<DigitChars[((h % 100) \div 10) + 1], DigitChars[(h % 10) + 1]>>
        \o <<"%">>

\* Python's order on strings made of the characters of a percentage.
CharOrder == <<"%", ".", "0", "1", "2", "3", "4", "5", "6", "7", "8", "9">>

CharRank(c) == CHOOSE k \in DOMAIN CharOrder : CharOrder[k] = c

RECURSIVE StrLess(_, _)
StrLess(a, b) ==
    IF b = <<>> THEN FALSE
    ELSE IF a = <<>> THEN TRUE
    ELSE IF Head(a) = Head(b) THEN StrLess(Tail(a), Tail(b))
    ELSE CharRank(Head(a)) < CharRank(Head(b))

----------------------------------------------------------------------------
\* The results list and its sort.

\* zip(names, scores), one dict per pair, in order.
ZipResults(names, scores) ==
    LET n == IF Len(names) < Len(scores) THEN Len(names) ELSE Len(scores)
    IN  [k \in 1 .. n |->
            [Document   |-> names[k],
             MatchScore |-> FormatPct(scores[k]),
             RawScore   |-> scores[k]]]

\* Python's sorted is stable: what sorts strictly before an element goes in
\* front of it, and so does what ties with it and came earlier.
\* before[j, k]: s[j] sorts strictly before s[k].
SortBy(s, before) ==
    LET pos(k) == 1 + Cardinality({j \in DOMAIN s :
                        \/ before[j, k]
                        \/ ~before[k, j] /\ j < k})
    IN  [p \in DOMAIN s |-> s[CHOOSE k \in DOMAIN s : pos(k) = p]]

\* The same, with ties in reverse of their original order.
SortByTiesReversed(s, before) ==
    LET pos(k) == 1 + Cardinality({j \in DOMAIN s :
                        \/ before[j, k]
                        \/ ~before[k, j] /\ j > k})
    IN  [p \in DOMAIN s |-> s[CHOOSE k \in DOMAIN s : pos(k) = p]]

\* key=lambda x: x['Raw Score'], reverse=True
RawAbove(rs) ==
    [j \in DOMAIN rs, k \in DOMAIN rs |-> rs[j].RawScore > rs[k].RawScore]

\* Mutants of the sort: equal scores swapped; the displayed string as the key.
StringAbove(rs) ==
    [j \in DOMAIN rs, k \in DOMAIN rs |->
        StrLess(rs[k].MatchScore, rs[j].MatchScore)]

sorted_unstable(rs) == SortByTiesReversed(rs, RawAbove(rs))

sorted_by_match_score(rs) == SortBy(rs, StringAbove(rs))

\* sorted(results, key=lambda x: x['Raw Score'], reverse=True)
sorted_by_raw_score(rs) == SortBy(rs, RawAbove(rs))

\* The mutant ranks from 0 (enumerate without the start).
csv_rows_from_zero(rs) ==
    [k \in DOMAIN rs |-> <<k - 1, rs[k].Document, rs[k].MatchScore>>]

\* [(i+1, res['Document'], res['Match Score']) for i, res in enumerate(...)]
csv_rows(rs) ==
    [k \in DOMAIN rs |-> <<k, rs[k].Document, rs[k].MatchScore>>]

\* create_downloadable_data(rows): the table, Rank as the index column.
create_downloadable_data(rows) ==
    [header |-> <<"Rank", "Document", "Match Score">>, rows |-> rows]

\* One displayed card: position, name, percentage, colour, progress value.
Card(idx, result) ==
    [idx      |-> idx,
     Document |-> result.Document,
     MatchScore |-> result.MatchScore,
     color    |-> IF result.RawScore > 500000 THEN "green"
                  ELSE IF result.RawScore > 300000 THEN "orange" ELSE "red",
     progress |-> result.RawScore]

----------------------------------------------------------------------------
\* State

VARIABLES
    resumes,            \* the uploader's files, in upload order
    job_description,    \* the text area's string
    vectorizer,         \* the object get_vectorizer() caches for the process
    pc,                 \* where the script run is; "done" once it has ended
    i,                  \* resumes handled by the loop so far
    valid_resumes,
    resume_texts,
    job_desc_texts,
    similarity_scores,
    results,
    sorted_results,
    errors,             \* the st.error messages shown by this run
    warning,            \* the st.warning of the last line is shown
    success,            \* <<n>> once st.success announced n resumes
    cards,              \* the result cards shown
    csv_data,           \* <<table>> once the download button holds the export
    extract_calls,      \* names extract_text was called on in this run
    fits,               \* fit_transform calls of this run
    vectorizer_found    \* the cached object as line 66 of this run found it

vars == <<resumes, job_description, vectorizer, pc, i, valid_resumes,
          resume_texts, job_desc_texts, similarity_scores, results,
          sorted_results, errors, warning, success, cards, csv_data,
          extract_calls, fits, vectorizer_found>>

locals == <<valid_resumes, resume_texts, job_desc_texts, similarity_scores,
            results, sorted_results>>

outputs == <<errors, warning, success, cards, csv_data>>

\* The mutant renders the button whatever the widgets hold.
ButtonAlwaysRendered(r, q) == TRUE

\* `resumes and job_description and st.button(...)`: the button is evaluated,
\* and so exists on the page, only when both are truthy.
ButtonRendered(r, q) == r # <<>> /\ q # <<>>

\* The condition of the `if` of line 63.
Gate(r, q, clicked) == ButtonRendered(r, q) /\ clicked

\* The mutant never stops at the guard.
NeverEmpty(texts) == FALSE

\* `not resume_texts`
NoValidText(texts) == texts = <<>>

\* The mutant names every upload, valid or not.
AllNames == [k \in DOMAIN resumes |-> resumes[k].name]

\* [r.name for r in valid_resumes]
ResultNames == [k \in DOMAIN valid_resumes |-> valid_resumes[k].name]

\* A script run starts on widget state (r, q): a fresh page, fresh locals, and
\* either the pipeline, or the warning, or nothing.
ScriptRun(r, q, clicked) ==
    /\ resumes' = r
    /\ job_description' = q
    /\ i' = 0
    /\ valid_resumes' = <<>>
    /\ resume_texts' = <<>>
    /\ job_desc_texts' = <<>>
    /\ similarity_scores' = <<>>
    /\ results' = <<>>
    /\ sorted_results' = <<>>
    /\ errors' = <<>>
    /\ success' = <<>>
    /\ cards' = <<>>
    /\ csv_data' = <<>>
    /\ extract_calls' = <<>>
    /\ fits' = 0
    /\ UNCHANGED vectorizer
    /\ IF Gate(r, q, clicked)
       THEN /\ pc' = "extract"
            /\ warning' = FALSE
            /\ vectorizer_found' = vectorizer
       ELSE /\ pc' = "done"
            /\ warning' = (r = <<>> \/ q = <<>>)
            /\ vectorizer_found' = NewVectorizer

Init ==
    /\ resumes = <<>>
    /\ job_description = <<>>
    /\ vectorizer = NewVectorizer
    /\ pc = "done"
    /\ i = 0
    /\ valid_resumes = <<>>
    /\ resume_texts = <<>>
    /\ job_desc_texts = <<>>
    /\ similarity_scores = <<>>
    /\ results = <<>>
    /\ sorted_results = <<>>
    /\ errors = <<>>
    /\ warning = TRUE
    /\ success = <<>>
    /\ cards = <<>>
    /\ csv_data = <<>>
    /\ extract_calls = <<>>
    /\ fits = 0
    /\ vectorizer_found = NewVectorizer

----------------------------------------------------------------------------
\* The user's steps; each one makes Streamlit run the script again.  They are
\* taken between script runs, and an upload has a name no other upload has
\* (the input contract: identifiers are unique within a batch).

UploadResume(f) ==
    /\ pc = "done"
    /\ Len(resumes) < MaxResumes
    /\ \A k \in DOMAIN resumes : resumes[k].name # f.name
    /\ ScriptRun(Append(resumes, f), job_description, FALSE)

RemoveResume(k) ==
    /\ pc = "done"
    /\ k \in DOMAIN resumes
    /\ ScriptRun(SubSeq(resumes, 1, k - 1) \o SubSeq(resumes, k + 1, Len(resumes)),
                 job_description, FALSE)

EditJobDescription(q) ==
    /\ pc = "done"
    /\ q # job_description
    /\ ScriptRun(resumes, q, FALSE)

ClickStart ==
    /\ pc = "done"
    /\ ButtonRendered(resumes, job_description)
    /\ ScriptRun(resumes, job_description, TRUE)

----------------------------------------------------------------------------
\* The pipeline, lines 64-138.

\* One turn of `for i, resume in enumerate(resumes)`.
ExtractStep ==
    /\ pc = "extract"
    /\ i < Len(resumes)
    /\ LET resume == resumes[i + 1]
           got    == extract_text(resume)
       IN  /\ extract_calls' = Append(extract_calls, resume.name)
           /\ errors' = errors \o got.error
           /\ IF got.text # <<>>
              THEN /\ valid_resumes' = Append(valid_resumes, resume)
                   /\ resume_texts' = Append(resume_texts, got.text)
              ELSE UNCHANGED <<valid_resumes, resume_texts>>
    /\ i' = i + 1
    /\ UNCHANGED <<resumes, job_description, vectorizer, pc, job_desc_texts,
                   similarity_scores, results, sorted_results, warning,
                   success, cards, csv_data, fits, vectorizer_found>>

\* `if not resume_texts: st.error(...); st.stop()`
NoValidGuard ==
    /\ pc = "extract"
    /\ i = Len(resumes)
    /\ IF NoValidText(resume_texts)
       THEN /\ errors' = Append(errors,
                [msg |-> "No valid text extracted from uploaded resumes!",
                 file |-> ""])
            /\ pc' = "done"
       ELSE /\ pc' = "vectorize"
            /\ UNCHANGED errors
    /\ UNCHANGED <<resumes, job_description, vectorizer, i, locals, warning,
                   success, cards, csv_data, extract_calls, fits,
                   vectorizer_found>>

\* The mutant reports the failure and goes on with no scores.
VectorizeNoStop ==
    /\ pc = "vectorize"
    /\ LET corpus == <<job_description>> \o resume_texts
           ft     == fit_transform(vectorizer, corpus)
       IN  /\ job_desc_texts' = corpus
           /\ fits' = fits + 1
           /\ vectorizer' = ft.vectorizer
           /\ pc' = "results"
           /\ IF ft.raised
              THEN /\ errors' = Append(errors,
                        [msg |-> "Error in document processing", file |-> ""])
                   /\ similarity_scores' = <<>>
              ELSE /\ similarity_scores' = cosine_similarity(ft.matrix)
                   /\ UNCHANGED errors
    /\ UNCHANGED <<resumes, job_description, i, valid_resumes, resume_texts,
                   results, sorted_results, warning, success, cards, csv_data,
                   extract_calls, vectorizer_found>>

\* The try/except around fit_transform and cosine_similarity.
Vectorize ==
    /\ pc = "vectorize"
    /\ LET corpus == <<job_description>> \o resume_texts
           ft     == fit_transform(vectorizer, corpus)
       IN  /\ job_desc_texts' = corpus
           /\ fits' = fits + 1
           /\ vectorizer' = ft.vectorizer
           /\ IF ft.raised
              THEN /\ errors' = Append(errors,
                        [msg |-> "Error in document processing", file |-> ""])
                   /\ pc' = "done"
                   /\ UNCHANGED similarity_scores
              ELSE /\ similarity_scores' = cosine_similarity(ft.matrix)
                   /\ pc' = "results"
                   /\ UNCHANGED errors
    /\ UNCHANGED <<resumes, job_description, i, valid_resumes, resume_texts,
                   results, sorted_results, warning, success, cards, csv_data,
                   extract_calls, vectorizer_found>>

\* results and sorted_results.
BuildResults ==
    /\ pc = "results"
    /\ results' = ZipResults(ResultNames, similarity_scores)
    /\ sorted_results' = sorted_by_raw_score(results')
    /\ pc' = "display"
    /\ UNCHANGED <<resumes, job_description, vectorizer, i, valid_resumes,
                   resume_texts, job_desc_texts, similarity_scores, outputs,
                   extract_calls, fits, vectorizer_found>>

\* st.success and the cards of enumerate(sorted_results, 1).
Display ==
    /\ pc = "display"
    /\ success' = <<Len(sorted_results)>>
    /\ cards' = [k \in DOMAIN sorted_results |-> Card(k, sorted_results[k])]
    /\ pc' = "export"
    /\ UNCHANGED <<resumes, job_description, vectorizer, i, locals, errors,
                   warning, csv_data, extract_calls, fits, vectorizer_found>>

\* csv_data and the download button.
Export ==
    /\ pc = "export"
    /\ csv_data' = <<create_downloadable_data(csv_rows(sorted_results))>>
    /\ pc' = "done"
    /\ UNCHANGED <<resumes, job_description, vectorizer, i, locals, errors,
                   warning, success, cards, extract_calls, fits,
                   vectorizer_found>>

Next ==
    \/ \E f \in Uploadable : UploadResume(f)
    \/ \E k \in 1 .. MaxResumes : RemoveResume(k)
    \/ \E q \in JobDescriptions : EditJobDescription(q)
    \/ ClickStart
    \/ ExtractStep
    \/ NoValidGuard
    \/ Vectorize
    \/ BuildResults
    \/ Display
    \/ Export

Spec == Init /\ [][Next]_vars

----------------------------------------------------------------------------
\* Vocabulary of the properties.

\* The pipeline was entered by the current script run: it is under way, or it
\* ended in one of its three ways (an error of the guard or of the except
\* branch, or the success message).
PipelineRan == pc # "done" \/ errors # <<>> \/ success # <<>>

NamesOf(files) == [k \in DOMAIN files |-> files[k].name]

\* A document the parser raises on.
Unparseable(f) == f.corrupt /\ f.ext \in {".pdf", ".docx"}

HasText(f) == extract_text(f).text # <<>>

Parseable(f) == ~Unparseable(f)

TextsOf(files) ==
    LET valid == SelectSeq(files, HasText)
    IN  [k \in DOMAIN valid |-> extract_text(valid[k]).text]

\* Names that some st.error of this run carries.
ReportedNames == {errors[k].file : k \in DOMAIN errors} \ {""}

RankedNames == {sorted_results[k].Document : k \in DOMAIN sorted_results}

BatchErrors == SelectSeq(errors, LAMBDA e : e.file = "")

UploadIndex(name) == CHOOSE k \in DOMAIN resumes : resumes[k].name = name

\* What one run on (q, files) ends with when the vectorizer is a new object.
FreshOutcome(q, files) ==
    LET names == NamesOf(SelectSeq(files, HasText))
        texts == TextsOf(files)
        ft    == fit_transform(NewVectorizer, <<q>> \o texts)
    IN  IF texts = <<>> THEN [kind |-> "no valid text", scores |-> <<>>,
                              ranking |-> <<>>]
        ELSE IF ft.raised THEN [kind |-> "error", scores |-> <<>>,
                                ranking |-> <<>>]
        ELSE LET scores == cosine_similarity(ft.matrix)
             IN  [kind |-> "ranked", scores |-> scores,
                  ranking |-> sorted_by_raw_score(ZipResults(names, scores))]

\* How the current run ended.
Ended ==
    IF success # <<>> THEN "ranked"
    ELSE IF \E k \in DOMAIN errors :
              errors[k].msg = "No valid text extracted from uploaded resumes!"
         THEN "no valid text"
    ELSE IF \E k \in DOMAIN errors :
              errors[k].msg = "Error in document processing"
         THEN "error"
    ELSE "none"

NoOutput == success = <<>> /\ cards = <<>> /\ csv_data = <<>>

----------------------------------------------------------------------------
\* C1: when a pipeline run has ended, every uploaded document is either in the
\* ranked results or named by an error message, never both and never
\* neither, so that ranked + reported = submitted.
\* The code contradicts this: a document whose text is empty without a parse
\* error is left out with no message that names it.
C1_EveryDocumentAccounted ==
    (pc = "done" /\ PipelineRan) =>
        /\ \A k \in DOMAIN resumes :
              (resumes[k].name \in RankedNames) # (resumes[k].name \in ReportedNames)
        /\ Len(sorted_results) + Cardinality(ReportedNames) = Len(resumes)

\* C2: the cards carry the positions 1..N in order, each once, one per sorted
\* result, and the raw score never increases from one position to the next;
\* sorted_results holds the same results as results.
C2_RanksDenseAndDescending ==
    /\ \A k \in DOMAIN cards :
          /\ cards[k].idx = k
          /\ cards[k].progress = sorted_results[k].RawScore
          /\ cards[k].Document = sorted_results[k].Document
    /\ Len(cards) \in {0, Len(sorted_results)}
    /\ \A k \in 1 .. Len(sorted_results) - 1 :
          sorted_results[k].RawScore >= sorted_results[k + 1].RawScore
    /\ pc \in {"display", "export"} \/ success # <<>> =>
          /\ Len(sorted_results) = Len(results)
          /\ \A k \in DOMAIN results :
                \E p \in DOMAIN sorted_results : sorted_results[p] = results[k]

\* C2 happens: three cards are shown, and somewhere the raw order and the
\* order of the percentage strings disagree.
C2_Witness ==
    /\ pc = "done"
    /\ Len(cards) = 3
    /\ \E k \in 1 .. 2 :
          /\ cards[k].progress > cards[k + 1].progress
          /\ StrLess(cards[k].MatchScore, cards[k + 1].MatchScore)

\* C3: of two ranked documents with equal raw scores, the one uploaded earlier
\* has the smaller position, and their positions differ.
C3_TiesKeepUploadOrder ==
    /\ \A a, b \in DOMAIN sorted_results :
          (a < b /\ sorted_results[a].RawScore = sorted_results[b].RawScore) =>
              UploadIndex(sorted_results[a].Document)
                  < UploadIndex(sorted_results[b].Document)
    /\ \A a, b \in DOMAIN cards :
          (a # b /\ cards[a].progress = cards[b].progress) =>
              /\ cards[a].idx # cards[b].idx
              /\ (cards[a].idx < cards[b].idx) =
                    (UploadIndex(cards[a].Document) < UploadIndex(cards[b].Document))

\* C3 happens: b.docx was uploaded before a.pdf, a third document before
\* both, and the two tie below or above it.
C3_Witness ==
    /\ pc = "done"
    /\ Len(cards) = 3
    /\ \E k \in 1 .. 2 :
          /\ cards[k].progress = cards[k + 1].progress
          /\ cards[k].Document = "b.docx"
          /\ cards[k + 1].Document = "a.pdf"
    /\ resumes[1].name = "c.pdf"

\* C4: a document the parser raises on gets an error message that names it,
\* extract_text is called on every upload whatever failed before it, and the
\* run ends as a run on the same uploads without the failing ones does, with
\* the same ranking.
C4_ParseErrorIsolated ==
    /\ \A k \in DOMAIN extract_calls :
          /\ extract_calls[k] = resumes[k].name
          /\ Unparseable(resumes[k]) =>
                \E e \in DOMAIN errors : errors[e].file = resumes[k].name
    /\ (PipelineRan /\ pc # "extract") => Len(extract_calls) = Len(resumes)
    /\ (pc = "done" /\ PipelineRan) =>
          LET others == FreshOutcome(job_description,
                                     SelectSeq(resumes, Parseable))
          IN  /\ Ended = others.kind
              /\ sorted_results = others.ranking

\* C4 happens: the corrupt document comes first of three and the two after it
\* are ranked.
C4_Witness ==
    /\ pc = "done"
    /\ Len(resumes) = 3
    /\ Unparseable(resumes[1])
    /\ Len(cards) = 2
    /\ cards[1].progress > cards[2].progress

\* C5: fit_transform is never called on the query alone, and a run in which no
\* upload has text ends with the "no valid text" error before any fit, with
\* no result, success message, card or export.
C5_NoValidInputStops ==
    /\ fits > 0 => Len(job_desc_texts) >= 2
    /\ (PipelineRan /\ pc # "extract" /\ TextsOf(resumes) = <<>>) =>
          /\ pc = "done"
          /\ Ended = "no valid text"
          /\ fits = 0
          /\ results = <<>> /\ sorted_results = <<>>
          /\ NoOutput

\* C5 happens: two uploads, neither with text, and the run has ended.
C5_Witness ==
    /\ pc = "done"
    /\ PipelineRan
    /\ Len(resumes) = 2
    /\ TextsOf(resumes) = <<>>

\* C6: a run that has ended shows either the whole ranking (every valid
\* document on a card and in the export, as many as announced) or no card, no
\* export and no success message; and when fit_transform raised it is the
\* latter, with exactly one batch-level error.
C6_CompleteOrNothing ==
    pc = "done" =>
        /\ \/ NoOutput
           \/ /\ valid_resumes # <<>>
              /\ success = <<Len(valid_resumes)>>
              /\ Len(cards) = Len(valid_resumes)
              /\ {cards[k].Document : k \in DOMAIN cards}
                    = {valid_resumes[k].name : k \in DOMAIN valid_resumes}
              /\ csv_data # <<>>
              /\ Len(csv_data[1].rows) = Len(valid_resumes)
        /\ (fits = 1 /\ fit_transform(NewVectorizer, job_desc_texts).raised) =>
              /\ NoOutput
              /\ Len(BatchErrors) = 1
              /\ BatchErrors[1].msg = "Error in document processing"

\* C6 happens: fit_transform raised on a valid document after another upload
\* had its own parse error, and the run has ended.
C6_Witness ==
    /\ pc = "done"
    /\ fits = 1
    /\ valid_resumes # <<>>
    /\ Ended = "error"
    /\ Len(errors) = 2

\* C7: fit_transform is called at most once in a run, and once in every run
\* that gets past the guard; when it is called every upload has been through
\* extract_text, and the corpus is the query followed by the non-empty texts
\* in upload order; valid_resumes and resume_texts stay aligned, and result k
\* carries the name of the document whose text is at corpus position k+1,
\* with the score of that position.
C7_FitOnceAligned ==
    /\ fits \in {0, 1}
    /\ (pc \in {"results", "display", "export"} \/ Ended \in {"ranked", "error"})
          => fits = 1
    /\ fits = 1 =>
          /\ i = Len(resumes)
          /\ extract_calls = NamesOf(resumes)
          /\ job_desc_texts = <<job_description>> \o TextsOf(resumes)
    /\ Len(valid_resumes) = Len(resume_texts)
    /\ \A k \in DOMAIN valid_resumes :
          resume_texts[k] = extract_text(valid_resumes[k]).text
    /\ (pc \in {"display", "export"} \/ success # <<>>) =>
          Len(results) = Len(valid_resumes)
    /\ \A k \in DOMAIN results :
          /\ results[k].Document = valid_resumes[k].name
          /\ results[k].RawScore = similarity_scores[k]
          /\ extract_text(resumes[UploadIndex(results[k].Document)]).text
                = job_desc_texts[k + 1]

\* C7 happens: an upload without text precedes two valid ones, and the
\* results are built.
C7_Witness ==
    /\ pc = "done"
    /\ Len(resumes) = 3
    /\ ~HasText(resumes[1])
    /\ Len(results) = 2
    /\ results[1].RawScore # results[2].RawScore

\* C8: the scores and the ranking of a run are those of a run on the same
\* query and uploads with a new vectorizer object, whatever the cached object
\* was fitted on before; two runs on the same input so give the same result.
C8_IndependentOfEarlierBatches ==
    (pc = "done" /\ PipelineRan) =>
        LET fresh == FreshOutcome(job_description, resumes)
        IN  /\ Ended = fresh.kind
            /\ similarity_scores = fresh.scores
            /\ sorted_results = fresh.ranking
            /\ Ended = "ranked" => vectorizer = Fit(job_desc_texts)

\* C8 happens: a ranking of two documents is shown by a run that found the
\* cached vectorizer fitted on another corpus.
C8_Witness ==
    /\ pc = "done"
    /\ Ended = "ranked"
    /\ Len(cards) = 2
    /\ vectorizer_found.fitted
    /\ vectorizer_found # vectorizer

\* C9: extraction and scoring happen only in a run whose job description and
\* upload list are both non-empty; a run with either one empty shows the
\* warning and nothing else.
C9_PipelineOnlyWithInputs ==
    /\ (PipelineRan \/ extract_calls # <<>> \/ fits > 0) =>
          (job_description # <<>> /\ resumes # <<>>)
    /\ (job_description = <<>> \/ resumes = <<>>) =>
          /\ pc = "done"
          /\ warning
          /\ errors = <<>>
          /\ NoOutput
    /\ PipelineRan => ~warning

\* C9 happens: the pipeline ran to its end on a non-empty query and uploads.
C9_Witness ==
    /\ pc = "done"
    /\ Ended = "ranked"
    /\ fits = 1
    /\ Len(extract_calls) = 2

\* C10: the export has one row per card and as many as the success message
\* announces; row k has rank k, and the name and percentage of card k.
C10_ExportMatchesDisplay ==
    csv_data # <<>> =>
        /\ csv_data[1].header = <<"Rank", "Document", "Match Score">>
        /\ Len(csv_data[1].rows) = Len(cards)
        /\ success = <<Len(csv_data[1].rows)>>
        /\ \A k \in DOMAIN cards :
              /\ cards[k].idx = k
              /\ csv_data[1].rows[k]
                    = <<k, cards[k].Document, cards[k].MatchScore>>

\* C10 happens: an export of three rows whose names are not in upload order.
C10_Witness ==
    /\ pc = "done"
    /\ csv_data # <<>>
    /\ Len(csv_data[1].rows) = 3
    /\ csv_data[1].rows[1][2] # resumes[1].name

====
